---- MODULE Spec2Model ----
(***************************************************************************)
(* Model of limda's frame analysis (src/limda/analyze_frame.py and the     *)
(* older src/limda/analize_frame.py): get_neighbor_list, get_mols_list,    *)
(* get_mols_dict, count_mols, count_bonds and get_edge_index.              *)
(*                                                                         *)
(* Lengths are integers in units of 0.01 length unit, so the margin 0.01   *)
(* is 1.  mesh_length is carried as mesh3 = 3 * mesh_length, which keeps   *)
(* min(cell) / 3 exact; the arithmetic is that of the rationals, not of    *)
(* IEEE doubles.  Python's None is the record None, a present value v is   *)
(* Some(v).  A str is the sequence of its characters.  Atom indices are    *)
(* 0..N-1 as in the source; atom types are 1..T.                           *)
(***************************************************************************)
EXTENDS Integers, Sequences, FiniteSets, TLC

VARIABLES atom_type_to_symbol, atoms_type, atoms_pos, cell, limda_default,
          call, outcome, ret

vars == <<atom_type_to_symbol, atoms_type, atoms_pos, cell, limda_default,
          call, outcome, ret>>

frame == <<atom_type_to_symbol, atoms_type, atoms_pos, cell, limda_default>>

\* ------------------------------------------------------------------ bounds

MaxAtoms == 3

\* ----------------------------------------------------------------- helpers

None == [some |-> FALSE]

Some(v) == [some |-> TRUE, val |-> v]

Range(s) == {s[k] : k \in DOMAIN s}

MaxOfSet(S) == CHOOSE m \in S : \A x \in S : x <= m

MinOfSet(S) == CHOOSE m \in S : \A x \in S : m <= x

\* the elements of a set of integers, ascending
RECURSIVE SortedSeq(_)
SortedSeq(S) ==
    IF S = {} THEN <<>>
    ELSE LET m == MinOfSet(S) IN <<m>> \o SortedSeq(S \ {m})

\* ------------------------------------------------- get_neighbor_list (code)

\* the margin added to the largest threshold: 0.01 length unit
Margin == 1

\* a broadcast that fills the upper triangle only
CutOffMatrixAsym(cut_off, T) ==
    [a \in 1..T |-> [b \in 1..T |-> IF a <= b THEN cut_off ELSE 0]]

\* [[cut_off for _ in range(atom_type_num)] for __ in range(atom_type_num)]
CutOffMatrix(cut_off, T) == [a \in 1..T |-> [b \in 1..T |-> cut_off]]

\* max(list(map(lambda x: max(x), bond_length))) for a non-empty matrix
MaxThreshold(bond_length) ==
    MaxOfSet({MaxOfSet(Range(bond_length[a])) : a \in DOMAIN bond_length})

MinCell(c) == MinOfSet(Range(c))

\* a mesh length that is never clamped
MeshLength3NoClamp(bond_length, c) == 3 * (MaxThreshold(bond_length) + Margin)

\* 3 * mesh_length: max + margin, clamped to min(cell) / 3
MeshLength3(bond_length, c) ==
    LET m3 == 3 * (MaxThreshold(bond_length) + Margin)
    IN  IF m3 > MinCell(c) THEN MinCell(c) ELSE m3

\* --------------------------- get_neighbor_list_using_cython (neighbour engine)

\* per-axis cell count: floor(L / mesh_length), at least 1
NumCells(L, mesh3) ==
    IF mesh3 > 0 /\ (3 * L) \div mesh3 >= 1 THEN (3 * L) \div mesh3 ELSE 1

GridOf(c, mesh3) ==
    <<NumCells(c[1], mesh3), NumCells(c[2], mesh3), NumCells(c[3], mesh3)>>

\* the cell coordinates of a position: wrapped into [0, L), then
\* floor(x / (L / n))
CellCoord(x, L, n) == ((x % L) * n) \div L

CellOf(p, c, n) ==
    <<CellCoord(p[1], c[1], n[1]), CellCoord(p[2], c[2], n[2]),
      CellCoord(p[3], c[3], n[3])>>

\* the periodic 3x3x3 block centred on cell ci is scanned with the offsets
\* -1, 0, 1 on each axis, the x offset slowest.  The first offset that
\* leads from coordinate ci to coordinate cj on an axis of n cells; 2 if none
\* does (with n < 3 two offsets name the same cell: the first one counts)
AxisOffset(ci, cj, n) ==
    IF (ci - 1) % n = cj THEN -1
    ELSE IF ci = cj THEN 0
    ELSE IF (ci + 1) % n = cj THEN 1
    ELSE 2

\* the first slot 1..27 of the scan at which cell cj is met from cell ci;
\* 0 when cj is not in the block
StencilSlot(ci, cj, n) ==
    LET ox == AxisOffset(ci[1], cj[1], n[1])
        oy == AxisOffset(ci[2], cj[2], n[2])
        oz == AxisOffset(ci[3], cj[3], n[3])
    IN  IF ox = 2 \/ oy = 2 \/ oz = 2 THEN 0
        ELSE 9 * (ox + 1) + 3 * (oy + 1) + (oz + 1) + 1

\* minimum-image displacement along one axis
MinImage(d, L) ==
    IF 2 * d > L THEN d - L ELSE IF 2 * d < -L THEN d + L ELSE d

Dist2(p, q, c) ==
    LET dx == MinImage(p[1] - q[1], c[1])
        dy == MinImage(p[2] - q[2], c[2])
        dz == MinImage(p[3] - q[3], c[3])
    IN  dx * dx + dy * dy + dz * dz

\* distance <= thresholds[type_i - 1][type_j - 1]
Bonded(i, j, types, pos, c, bond_length) ==
    LET thr == bond_length[types[i]][types[j]]
    IN  thr >= 0 /\ Dist2(pos[i], pos[j], c) <= thr * thr

\* the neighbours of atom i: the stencil cells are scanned in order, a cell
\* met again is skipped, and each bucket is read in index order; so an atom
\* j # i that passes the bond test is listed at the first stencil slot of
\* its cell, and not at all when its cell is not in the stencil
NeighborsOf(i, N, types, pos, c, bond_length, n, cells) ==
    LET hits == {j \in 0..(N - 1) :
                    /\ j # i
                    /\ Bonded(i, j, types, pos, c, bond_length)
                    /\ StencilSlot(cells[i], cells[j], n) # 0}
        codes == SortedSeq({StencilSlot(cells[i], cells[j], n) * N + j :
                               j \in hits})
    IN  [m \in 1..Len(codes) |-> codes[m] % N]

\* the neighbour list of the frame: atom index -> list of neighbour indices
NeighborEngine(types, pos, c, mesh3, bond_length) ==
    LET N == Cardinality(DOMAIN types)
        n == GridOf(c, mesh3)
        cells == [i \in 0..(N - 1) |-> CellOf(pos[i], c, n)]
        rows[k \in 0..N] ==
            IF k = 0 THEN <<>>
            ELSE Append(rows[k - 1],
                     NeighborsOf(k - 1, N, types, pos, c, bond_length, n, cells))
        all == rows[N]
    IN  [i \in 0..(N - 1) |-> all[i + 1]]

\* ------------------------------------------ get_neighbor_list (code, cont.)

NoNeighborList == [i \in {} |-> <<>>]

\* an exception leaves get_neighbor_list: nothing is returned
Raise(kind, stage) ==
    [status |-> kind, stage |-> stage, bond_length |-> None, mesh3 |-> None,
     engine |-> FALSE, nl |-> NoNeighborList]

\* mesh_length, then the call of the neighbour engine
MeshAndEngine(types, pos, c, bond_length) ==
    IF Len(bond_length) = 0
    THEN Raise("ValueError", "mesh")          \* max() of an empty list
    ELSE LET mesh3 == MeshLength3(bond_length, c)
         IN  [status |-> "ok", stage |-> "done",
              bond_length |-> Some(bond_length), mesh3 |-> Some(mesh3),
              engine |-> TRUE,
              nl |-> NeighborEngine(types, pos, c, mesh3, bond_length)]

\* the rows of bond_length have the length atom_type_num
RowsWellFormed(bond_length, T) ==
    \A r \in DOMAIN bond_length : Len(bond_length[r]) = T

GetNeighborList(symtab, types, pos, c, default, mode, cut_off, bond_length) ==
    LET T == Len(symtab)
    IN  IF mode \notin {"bond_length", "cut_off"}
        THEN Raise("AssertionError", "validation")
        ELSE IF mode = "bond_length"
        THEN LET bl == IF bond_length.some THEN bond_length
                       ELSE default.bond_length
             IN  IF ~bl.some
                 THEN Raise("TypeError", "validation")      \* len(None)
                 ELSE IF Len(bl.val) # T
                 THEN Raise("AssertionError", "validation")
                 ELSE IF ~RowsWellFormed(bl.val, T)
                 THEN Raise("AssertionError", "validation")
                 ELSE MeshAndEngine(types, pos, c, bl.val)
        ELSE LET co == IF cut_off.some THEN cut_off ELSE default.cut_off
             IN  IF ~co.some
                 THEN \* the matrix holds None: max([]) or None + 0.01 raises
                      IF T = 0 THEN Raise("ValueError", "mesh")
                      ELSE Raise("TypeError", "mesh")
                 ELSE MeshAndEngine(types, pos, c, CutOffMatrix(co.val, T))

\* ------------------------- get_mols_list_using_cython (connectivity engine)

\* the atoms bonded to an atom of S, in either direction
Adjacent(S, nl) ==
    {j \in DOMAIN nl : \E i \in S : j \in Range(nl[i]) \/ i \in Range(nl[j])}

RECURSIVE Component(_, _)
Component(S, nl) ==
    LET S2 == S \cup Adjacent(S, nl)
    IN  IF S2 = S THEN S ELSE Component(S2, nl)

\* the components, each from its lowest atom, atoms in ascending order
RECURSIVE MolsFrom(_, _)
MolsFrom(left, nl) ==
    IF left = {} THEN <<>>
    ELSE LET comp == Component({MinOfSet(left)}, nl)
         IN  <<SortedSeq(comp)>> \o MolsFrom(left \ comp, nl)

MolsList(nl, atom_num) == MolsFrom(0..(atom_num - 1), nl)

\* ------------------------------------------------------------- str helpers

Digits == <<"0", "1", "2", "3", "4", "5", "6", "7", "8", "9">>

\* f"{n}" for n >= 0
RECURSIVE IntToStr(_)
IntToStr(n) ==
    IF n < 10 THEN <<Digits[n + 1]>>
    ELSE IntToStr(n \div 10) \o <<Digits[(n % 10) + 1]>>

\* a dict built by assigning pairs[1], pairs[2], ... in turn: a later
\* assignment to the same key replaces the earlier one
DictOf(pairs) ==
    [k \in {pairs[n][1] : n \in DOMAIN pairs} |->
        LET last == MaxOfSet({n \in DOMAIN pairs : pairs[n][1] = k})
        IN  pairs[last][2]]

\* the distinct elements of a sequence, in the order of their first occurrence
FirstOccurrences(s) ==
    LET idx == SelectSeq([k \in 1..Len(s) |-> k],
                         LAMBDA k : \A m \in 1..(k - 1) : s[m] # s[k])
    IN  [k \in 1..Len(idx) |-> s[idx[k]]]

\* ------------------------------------------- count_mols, get_mols_dict (code)

\* atom_type_count of one molecule: its number of atoms of each type
AtomTypeCount(mol, types, T) ==
    [t \in 1..T |-> Cardinality({k \in DOMAIN mol : types[mol[k]] = t})]

\* the keys of mols_count_tmp / mols_dict_tmp, in insertion order
CountTuples(mols_list, types, T) ==
    FirstOccurrences([k \in 1..Len(mols_list) |->
                          AtomTypeCount(mols_list[k], types, T)])

\* mols_count_tmp[key]: the molecules of that composition
TupleCount(key, mols_list, types, T) ==
    Cardinality({k \in 1..Len(mols_list) :
                     AtomTypeCount(mols_list[k], types, T) = key})

\* mol_str of AnalizeFrame.count_mols: the parts are joined by a space
MolStrAnalize(atom_type_count, symtab) ==
    LET s[k \in 0..Len(symtab)] ==
            IF k = 0 THEN <<>>
            ELSE IF atom_type_count[k] = 0 THEN s[k - 1]
            ELSE IF s[k - 1] = <<>>
            THEN symtab[k] \o IntToStr(atom_type_count[k])
            ELSE s[k - 1] \o <<" ">> \o symtab[k]
                          \o IntToStr(atom_type_count[k])
    IN  s[Len(symtab)]

\* mol_str of AnalyzeFrame: symbol and count of every type present, ascending
MolStr(atom_type_count, symtab) ==
    LET s[k \in 0..Len(symtab)] ==
            IF k = 0 THEN <<>>
            ELSE IF atom_type_count[k] = 0 THEN s[k - 1]
            ELSE s[k - 1] \o symtab[k] \o IntToStr(atom_type_count[k])
    IN  s[Len(symtab)]

\* AnalyzeFrame.count_mols, after get_mols_list
MolsCount(mols_list, types, symtab) ==
    LET T == Len(symtab)
        keys == CountTuples(mols_list, types, T)
    IN  DictOf([k \in 1..Len(keys) |->
                   <<MolStr(keys[k], symtab),
                     TupleCount(keys[k], mols_list, types, T)>>])

\* AnalizeFrame.count_mols, after get_mols_list
AnalizeMolsCount(mols_list, types, symtab) ==
    LET T == Len(symtab)
        keys == CountTuples(mols_list, types, T)
    IN  DictOf([k \in 1..Len(keys) |->
                   <<MolStrAnalize(keys[k], symtab),
                     TupleCount(keys[k], mols_list, types, T)>>])

\* AnalyzeFrame.get_mols_dict, after get_mols_list
MolsDict(mols_list, types, symtab) ==
    LET T == Len(symtab)
        keys == CountTuples(mols_list, types, T)
    IN  DictOf([k \in 1..Len(keys) |->
                   <<MolStr(keys[k], symtab),
                     SelectSeq(mols_list,
                         LAMBDA mol : AtomTypeCount(mol, types, T) = keys[k])>>])

\* ----------------------------------------------------- count_bonds (code)

\* if atom_i_idx < atom_j_idx
CountedPair(i, j) == i < j

\* count_bonds_list: [type_i - 1][type_j - 1] += 1 for every counted entry
CountBondsList(nl, types, T) ==
    LET entries == UNION {{<<i, k>> : k \in DOMAIN nl[i]} : i \in DOMAIN nl}
    IN  [a \in 1..T |-> [b \in 1..T |->
            Cardinality({e \in entries :
                /\ CountedPair(e[1], nl[e[1]][e[2]])
                /\ types[e[1]] = a
                /\ types[nl[e[1]][e[2]]] = b})]]

\* a range that stops one type short
BondTypeIRangeShort(T) == 1..(T - 1)

\* range(1, len(self.atom_symbol_to_type) + 1)
BondTypeIRange(T) == 1..T

\* a range that leaves out the pair of a type with itself
BondTypeJRangeShort(a, T) == (a + 1)..T

\* range(atom_i_type, len(self.atom_symbol_to_type) + 1)
BondTypeJRange(a, T) == a..T

\* f"{symbol_i}-{symbol_j}"
BondKey(a, b, symtab) == symtab[a] \o <<"-">> \o symtab[b]

\* count_bonds_dict, filled for atom_i_type and then atom_j_type ascending
CountBondsDict(nl, types, symtab) ==
    LET T == Len(symtab)
        list == CountBondsList(nl, types, T)
        codes == SortedSeq({a * (T + 1) + b :
                     <<a, b>> \in {q \in (1..T) \X (1..T) :
                         q[1] \in BondTypeIRange(T)
                         /\ q[2] \in BondTypeJRange(q[1], T)}})
    IN  DictOf([k \in 1..Len(codes) |->
                   LET a == codes[k] \div (T + 1)
                       b == codes[k] % (T + 1)
                   IN  <<BondKey(a, b, symtab), list[a][b]>>])

\* --------------------------------------------------- get_edge_index (code)

\* a test that keeps both directions of a pair
EdgeKeptBothWays(i, j) == i # j

\* if atom_idx < neighbor_atom_idx
EdgeKept(i, j) == i < j

EdgeIndex(nl, atom_num) ==
    LET acc[k \in 0..atom_num] ==
            IF k = 0 THEN <<<<>>, <<>>>>
            ELSE LET i == k - 1
                     dst == SelectSeq(nl[i], LAMBDA j : EdgeKept(i, j))
                 IN  <<acc[k - 1][1] \o [m \in 1..Len(dst) |-> i],
                       acc[k - 1][2] \o dst>>
    IN  acc[atom_num]

\* ------------------------------------------------------------ the frames

\* atom_type_to_symbol is a prefix of the pool: no, one or two atom types
SymbolPool == <<<<"O">>, <<"H">>>>

\* atom positions and cells, in units of 0.01.  In the 3.0 x 12.0 x 3.0 cell
\* the first and third point are 0.1 apart across the x boundary; the first
\* and second are 1.9 apart along y, the first and fourth 0.75 along z
Points == {<<5, 50, 5>>, <<5, 240, 5>>, <<295, 50, 5>>, <<5, 50, 80>>}

Cells == {<<300, 1200, 300>>, <<1200, 1200, 1200>>}

\* a bond-length matrix: 1.0 within a type, 2.0 between two types
TypeMatrix(T) == [a \in 1..T |-> [b \in 1..T |-> IF a = b THEN 100 ELSE 200]]

\* not symmetric: 2.0 above the diagonal, 0 below
AsymMatrix(T) ==
    [a \in 1..T |-> [b \in 1..T |->
        IF a = b THEN 100 ELSE IF a < b THEN 200 ELSE 0]]

\* a negative entry on the diagonal
NegMatrix(T) == [a \in 1..T |-> [b \in 1..T |-> IF a = b THEN -100 ELSE 200]]

\* T + 1 rows
LongMatrix(T) == [a \in 1..(T + 1) |-> [b \in 1..T |-> 100]]

\* T rows of T + 1 entries
WideMatrix(T) == [a \in 1..T |-> [b \in 1..(T + 1) |-> 100]]

Defaults(T) ==
    {[cut_off |-> None, bond_length |-> None],
     [cut_off |-> Some(100), bond_length |-> Some(TypeMatrix(T))]}

\* Scenario A: three O H H molecules, 4.0 apart, in a 12.0 cell
ScenarioAPos ==
    [i \in 0..8 |->
        LET b == 100 + 400 * (i \div 3)
        IN  IF i % 3 = 0 THEN <<b, 100, 100>>
            ELSE IF i % 3 = 1 THEN <<b + 90, 100, 100>>
            ELSE <<b, 190, 100>>]

ScenarioATypes == [i \in 0..8 |-> IF i % 3 = 0 THEN 1 ELSE 2]

\* ------------------------------------------------------ the calls' arguments

CutOffArgs == {None, Some(100), Some(200), Some(-100)}

BondLengthArgs(T) ==
    {None, Some(TypeMatrix(T)), Some(AsymMatrix(T)), Some(NegMatrix(T)),
     Some(LongMatrix(T)), Some(WideMatrix(T))}

\* the arguments the handlers built on get_neighbor_list are called with
StatConfigs(T) ==
    {[mode |-> "cut_off", cut_off |-> co, bond_length |-> None] :
         co \in {None, Some(200)}}
    \cup {[mode |-> "bond_length", cut_off |-> None, bond_length |-> bl] :
              bl \in {None, Some(AsymMatrix(T))}}

Configs(T) ==
    {[mode |-> "cut_off", cut_off |-> co, bond_length |-> None] :
         co \in CutOffArgs}
    \cup {[mode |-> "bond_length", cut_off |-> None, bond_length |-> bl] :
              bl \in BondLengthArgs(T)}
    \cup {[mode |-> "distance", cut_off |-> Some(100), bond_length |-> None]}

\* ------------------------------------------------------------------- state

NoCall == [op |-> "none", mode |-> "none", cut_off |-> None,
           bond_length |-> None]

\* a frame of up to MaxAtoms atoms at different points, of one or two atom
\* types; Scenario A; or a frame that has no atom type and so no atom
Init ==
    /\ \/ \E T \in 1..Len(SymbolPool), N \in 0..MaxAtoms :
            /\ atom_type_to_symbol = SubSeq(SymbolPool, 1, T)
            /\ atoms_type \in [0..(N - 1) -> 1..T]
            /\ atoms_pos \in {f \in [0..(N - 1) -> Points] :
                                \A i, j \in 0..(N - 1) : f[i] = f[j] => i = j}
            /\ cell \in Cells
       \/ /\ atom_type_to_symbol = SubSeq(SymbolPool, 1, 2)
          /\ atoms_type = ScenarioATypes
          /\ atoms_pos = ScenarioAPos
          /\ cell = <<1200, 1200, 1200>>
       \/ /\ atom_type_to_symbol = <<>>
          /\ atoms_type = [i \in {} |-> 1]
          /\ atoms_pos = [i \in {} |-> <<0, 0, 0>>]
          /\ cell \in Cells
    /\ limda_default \in Defaults(Len(atom_type_to_symbol))
    /\ call = NoCall
    /\ outcome = Raise("none", "none")
    /\ ret = None

TypeNum == Len(atom_type_to_symbol)

\* self.get_total_atoms(), len(self)
TotalAtoms == Cardinality(DOMAIN atoms_type)

\* self.get_neighbor_list(mode=mode, cut_off=cut_off, bond_length=bond_length)
NeighborListOf(cfg) ==
    GetNeighborList(atom_type_to_symbol, atoms_type, atoms_pos, cell,
                    limda_default, cfg.mode, cfg.cut_off, cfg.bond_length)

Called(op, cfg) ==
    call' = [op |-> op, mode |-> cfg.mode, cut_off |-> cfg.cut_off,
             bond_length |-> cfg.bond_length]

\* a handler's return value, or the exception of get_neighbor_list
Returns(r, value) ==
    /\ outcome' = r
    /\ ret' = IF r.status = "ok" THEN Some(value) ELSE None
    /\ UNCHANGED frame

get_neighbor_list ==
    /\ call.op = "none"
    /\ \E cfg \in Configs(TypeNum) :
        LET r == NeighborListOf(cfg)
        IN  Called("get_neighbor_list", cfg) /\ Returns(r, r.nl)

get_mols_list ==
    /\ call.op = "none"
    /\ \E cfg \in StatConfigs(TypeNum) :
        LET r == NeighborListOf(cfg)
        IN  /\ Called("get_mols_list", cfg)
            /\ Returns(r, MolsList(r.nl, TotalAtoms))

get_mols_dict ==
    /\ call.op = "none"
    /\ \E cfg \in StatConfigs(TypeNum) :
        LET r == NeighborListOf(cfg)
        IN  /\ Called("get_mols_dict", cfg)
            /\ Returns(r, MolsDict(MolsList(r.nl, TotalAtoms), atoms_type,
                                   atom_type_to_symbol))

count_mols ==
    /\ call.op = "none"
    /\ \E cfg \in StatConfigs(TypeNum) :
        LET r == NeighborListOf(cfg)
        IN  /\ Called("count_mols", cfg)
            /\ Returns(r, MolsCount(MolsList(r.nl, TotalAtoms), atoms_type,
                                    atom_type_to_symbol))

analize_count_mols ==
    /\ call.op = "none"
    /\ \E cfg \in StatConfigs(TypeNum) :
        LET r == NeighborListOf(cfg)
        IN  /\ Called("analize_count_mols", cfg)
            /\ Returns(r, AnalizeMolsCount(MolsList(r.nl, TotalAtoms),
                                           atoms_type, atom_type_to_symbol))

count_bonds ==
    /\ call.op = "none"
    /\ \E cfg \in StatConfigs(TypeNum) :
        LET r == NeighborListOf(cfg)
        IN  /\ Called("count_bonds", cfg)
            /\ Returns(r, CountBondsDict(r.nl, atoms_type,
                                         atom_type_to_symbol))

get_edge_index ==
    /\ call.op = "none"
    /\ \E co \in CutOffArgs :
        LET cfg == [mode |-> "cut_off", cut_off |-> co, bond_length |-> None]
            r == NeighborListOf(cfg)
        IN  /\ Called("get_edge_index", cfg)
            /\ Returns(r, EdgeIndex(r.nl, TotalAtoms))

\* the caller drops the result; the frame is as before (the handlers are
\* read-only), so the next call starts from the same state
return_to_caller ==
    /\ call.op # "none"
    /\ call' = NoCall
    /\ outcome' = Raise("none", "none")
    /\ ret' = None
    /\ UNCHANGED frame

Next ==
    \/ get_neighbor_list
    \/ get_mols_list
    \/ get_mols_dict
    \/ count_mols
    \/ analize_count_mols
    \/ count_bonds
    \/ get_edge_index
    \/ return_to_caller

Spec == Init /\ [][Next]_vars

\* ------------------------------------------------------ reading a state

Ok == outcome.status = "ok"

\* the threshold the call resolves to: the argument, else the default
ResolvedCutOff == IF call.cut_off.some THEN call.cut_off ELSE limda_default.cut_off

ResolvedBondLength ==
    IF call.bond_length.some THEN call.bond_length
    ELSE limda_default.bond_length

IsSquare(m, T) == Len(m) = T /\ \A a \in DOMAIN m : Len(m[a]) = T

HasNegative(m) == \E a \in DOMAIN m : \E b \in DOMAIN m[a] : m[a][b] < 0

IsSymmetric(m) == \A a \in DOMAIN m : \A b \in DOMAIN m : m[a][b] = m[b][a]

\* a valid frame's thresholds: a non-negative cutoff, or a symmetric
\* non-negative T x T matrix
ValidThresholds ==
    \/ /\ call.mode = "cut_off"
       /\ ResolvedCutOff.some
       /\ ResolvedCutOff.val >= 0
    \/ /\ call.mode = "bond_length"
       /\ ResolvedBondLength.some
       /\ IsSquare(ResolvedBondLength.val, TypeNum)
       /\ ~HasNegative(ResolvedBondLength.val)
       /\ IsSymmetric(ResolvedBondLength.val)

Symmetric(nl) ==
    \A i \in DOMAIN nl : \A j \in DOMAIN nl :
        j \in Range(nl[i]) <=> i \in Range(nl[j])

LoopFree(nl) == \A i \in DOMAIN nl : i \notin Range(nl[i])

DuplicateFree(nl) ==
    \A i \in DOMAIN nl : Cardinality(Range(nl[i])) = Len(nl[i])

RECURSIVE SumOver(_, _)
SumOver(f, S) ==
    IF S = {} THEN 0
    ELSE LET x == CHOOSE y \in S : TRUE IN f[x] + SumOver(f, S \ {x})

\* sum(d.values())
DictSum(d) == SumOver(d, DOMAIN d)

\* sum(len(N(i)) for all i)
TotalDegree(nl) == SumOver([i \in DOMAIN nl |-> Len(nl[i])], DOMAIN nl)

\* --------------------------------------------------------------------- C1

\* C1: bond count identity.  Whenever count_bonds returns for a frame with
\* valid thresholds, whose neighbour list is symmetric and self-loop-free,
\* twice the sum of the
\* returned counts equals the sum of the neighbour-list lengths.
C1_BondCountIdentity ==
    (/\ call.op = "count_bonds"
     /\ Ok
     /\ ValidThresholds
     /\ Symmetric(outcome.nl)
     /\ LoopFree(outcome.nl))
    => 2 * DictSum(ret.val) = TotalDegree(outcome.nl)

\* --------------------------------------------------------------------- C2

\* the all-pairs minimum-image search with the thresholds of the call
BruteForce(i) ==
    {j \in DOMAIN atoms_type :
        /\ j # i
        /\ Bonded(i, j, atoms_type, atoms_pos, cell, outcome.bond_length.val)}

\* the clamp applies: min(cell) < 3 * (max threshold + 0.01)
Clamped ==
    MinCell(cell) < 3 * (MaxThreshold(outcome.bond_length.val) + Margin)

\* C2: mesh correctness under clamping.  Whenever get_neighbor_list returns
\* for a cell on which the clamp applies, every atom's neighbours are those
\* of the brute-force all-pairs minimum-image search.
C2_MeshMatchesBruteForce ==
    (call.op = "get_neighbor_list" /\ Ok /\ Clamped)
    => \A i \in DOMAIN outcome.nl : Range(outcome.nl[i]) = BruteForce(i)

\* --------------------------------------------------------------------- C3

\* C3: symmetry.  For valid thresholds the neighbour list handed back by the
\* engine has j in N(i) exactly when i is in N(j), and no i in N(i).
C3_Symmetry ==
    (outcome.engine /\ ValidThresholds)
    => Symmetric(outcome.nl) /\ LoopFree(outcome.nl)

\* two atoms of different types are bonded under a type-pair matrix
C3_Witness ==
    /\ call.op = "get_neighbor_list"
    /\ Ok
    /\ ValidThresholds
    /\ call.mode = "bond_length"
    /\ \E i \in DOMAIN outcome.nl : \E j \in Range(outcome.nl[i]) :
           atoms_type[i] # atoms_type[j]

\* --------------------------------------------------------------------- C4

\* the frame with atoms i and j exchanged: positions and types move
\* together, and the bond graph is that of the exchanged frame
Swapped(f, i, j) ==
    [a \in DOMAIN f |-> IF a = i THEN f[j] ELSE IF a = j THEN f[i] ELSE f[a]]

NeighborListOfFrame(types, pos) ==
    GetNeighborList(atom_type_to_symbol, types, pos, cell, limda_default,
                    call.mode, call.cut_off, call.bond_length).nl

CountBondsOfFrame(types, pos) ==
    CountBondsDict(NeighborListOfFrame(types, pos), types, atom_type_to_symbol)

CountMolsOfFrame(types, pos) ==
    MolsCount(MolsList(NeighborListOfFrame(types, pos), TotalAtoms), types,
              atom_type_to_symbol)

\* C4: permutation invariance.  Whenever count_bonds or count_mols returns
\* for a frame with valid thresholds, the same call on the frame with any
\* two atoms exchanged returns the same map (every permutation of the atoms
\* is a product of such exchanges).
C4_PermutationInvariance ==
    (call.op \in {"count_bonds", "count_mols"} /\ Ok /\ ValidThresholds)
    => \A i, j \in DOMAIN atoms_type :
           LET types == Swapped(atoms_type, i, j)
               pos == Swapped(atoms_pos, i, j)
           IN  IF call.op = "count_bonds"
               THEN CountBondsOfFrame(types, pos) = ret.val
               ELSE CountMolsOfFrame(types, pos) = ret.val

\* count_mols alone is invariant
CountMolsPermutationInvariant ==
    (call.op = "count_mols" /\ Ok /\ ValidThresholds)
    => \A i, j \in DOMAIN atoms_type :
           CountMolsOfFrame(Swapped(atoms_type, i, j),
                            Swapped(atoms_pos, i, j)) = ret.val

\* --------------------------------------------------------------------- C5

\* the positions of the edge index that hold the pair (i, j)
EdgeSlots(i, j) ==
    {k \in DOMAIN ret.val[1] : ret.val[1][k] = i /\ ret.val[2][k] = j}

\* C5: edge index.  Whenever get_edge_index returns for a symmetric,
\* self-loop-free, duplicate-free neighbour list, the two sequences have the
\* same length, every entry is a bonded pair with source < destination,
\* every bonded pair i < j has exactly one entry, and the sources ascend.
C5_EdgeIndex ==
    (/\ call.op = "get_edge_index"
     /\ Ok
     /\ Symmetric(outcome.nl)
     /\ LoopFree(outcome.nl)
     /\ DuplicateFree(outcome.nl))
    => /\ Len(ret.val[1]) = Len(ret.val[2])
       /\ \A k \in DOMAIN ret.val[1] :
              /\ ret.val[1][k] < ret.val[2][k]
              /\ ret.val[2][k] \in Range(outcome.nl[ret.val[1][k]])
       /\ \A i \in DOMAIN outcome.nl : \A j \in Range(outcome.nl[i]) :
              i < j => Cardinality(EdgeSlots(i, j)) = 1
       /\ \A k \in 1..(Len(ret.val[1]) - 1) :
              ret.val[1][k] <= ret.val[1][k + 1]

\* an edge index of two or more edges from two or more sources
C5_Witness ==
    /\ call.op = "get_edge_index"
    /\ Ok
    /\ Len(ret.val[1]) >= 2
    /\ Cardinality(Range(ret.val[1])) >= 2
    /\ \E i \in DOMAIN outcome.nl : Len(outcome.nl[i]) >= 2

\* --------------------------------------------------------------------- C6

\* the threshold configuration is malformed or missing
Malformed ==
    \/ call.mode \notin {"bond_length", "cut_off"}
    \/ /\ call.mode = "cut_off"
       /\ ~ResolvedCutOff.some
    \/ /\ call.mode = "bond_length"
       /\ \/ ~ResolvedBondLength.some
          \/ ~IsSquare(ResolvedBondLength.val, TypeNum)
          \/ HasNegative(ResolvedBondLength.val)

\* C6: threshold validation.  Whenever get_neighbor_list is called with a
\* malformed or missing threshold configuration, it raises, no mesh length
\* is computed, the neighbour engine is not invoked and nothing is returned.
C6_ThresholdValidation ==
    (call.op = "get_neighbor_list" /\ Malformed)
    => /\ ~Ok
       /\ ~outcome.mesh3.some
       /\ ~outcome.engine
       /\ ~ret.some

\* the same without the negative entries: those configurations do raise
MalformedShapeRaises ==
    (/\ call.op = "get_neighbor_list"
     /\ Malformed
     /\ ~(/\ call.mode = "bond_length"
          /\ ResolvedBondLength.some
          /\ IsSquare(ResolvedBondLength.val, TypeNum)))
    => /\ ~Ok
       /\ ~outcome.mesh3.some
       /\ ~outcome.engine
       /\ ~ret.some

\* --------------------------------------------------------------------- C7

\* the number of atoms of each type in a component
TypeTally(mol) ==
    [t \in 1..TypeNum |->
        Cardinality({a \in Range(mol) : atoms_type[a] = t})]

\* the canonical formula of a tally, over the types 1..t
RECURSIVE CanonicalFormula(_, _)
CanonicalFormula(tally, t) ==
    IF t = 0 THEN <<>>
    ELSE CanonicalFormula(tally, t - 1)
         \o (IF tally[t] = 0 THEN <<>>
             ELSE atom_type_to_symbol[t] \o IntToStr(tally[t]))

FormulaOf(mol) == CanonicalFormula(TypeTally(mol), TypeNum)

\* formula -> number of components of that composition
ExpectedFormulaCounts ==
    LET mols == MolsList(outcome.nl, TotalAtoms)
    IN  [s \in {FormulaOf(mols[k]) : k \in DOMAIN mols} |->
            Cardinality({k \in DOMAIN mols : FormulaOf(mols[k]) = s})]

ScenarioA == atoms_type = ScenarioATypes /\ atoms_pos = ScenarioAPos

\* C7: formula counting.  Whenever count_mols (of AnalyzeFrame or of
\* AnalizeFrame) returns, the map has the canonical formula of every
\* component as a key and the number of components of that composition as
\* its value; on Scenario A it is {"O1H2": 3}.
C7_FormulaCounting ==
    (call.op \in {"count_mols", "analize_count_mols"} /\ Ok)
    => /\ ret.val = ExpectedFormulaCounts
       /\ ScenarioA => ret.val = (<<"O", "1", "H", "2">> :> 3)

\* AnalyzeFrame.count_mols alone does so
AnalyzeFrameFormulaCounting ==
    (call.op = "count_mols" /\ Ok)
    => /\ ret.val = ExpectedFormulaCounts
       /\ ScenarioA => ret.val = (<<"O", "1", "H", "2">> :> 3)

\* Scenario A is counted, each molecule found by its two O-H bonds
ScenarioACounted ==
    /\ ScenarioA
    /\ call.op = "count_mols"
    /\ Ok
    /\ TotalDegree(outcome.nl) = 12

\* --------------------------------------------------------------------- C8

\* the "Symbol-Symbol" keys of the unordered type pairs
AllBondKeys ==
    {atom_type_to_symbol[a] \o <<"-">> \o atom_type_to_symbol[b] :
        <<a, b>> \in {q \in (1..TypeNum) \X (1..TypeNum) : q[1] <= q[2]}}

\* the threshold configuration resolves: a known mode with its cutoff, or
\* with a T x T matrix, passed or in the defaults
Resolvable ==
    \/ /\ call.mode = "cut_off"
       /\ ResolvedCutOff.some
    \/ /\ call.mode = "bond_length"
       /\ ResolvedBondLength.some
       /\ IsSquare(ResolvedBondLength.val, TypeNum)

EmptyFrameCall ==
    /\ TotalAtoms = 0
    /\ call.op \in {"get_neighbor_list", "get_mols_list", "count_mols",
                    "get_mols_dict", "count_bonds"}
    /\ Resolvable

\* C8 as stated: on a frame without atoms every one of the five handlers
\* returns, and returns an empty list or map.
C8_EmptyFrameAllEmpty ==
    EmptyFrameCall => (Ok /\ DOMAIN ret.val = {})

\* C8, amended: on a frame without atoms and with at least one atom type,
\* every one of the five handlers returns; the neighbour list, the grouping
\* and the maps of count_mols and get_mols_dict are empty, and the map of
\* count_bonds holds every one of the T(T+1)/2 type-pair keys with count 0.
C8_EmptyFrame ==
    (EmptyFrameCall /\ TypeNum >= 1)
    => /\ Ok
       /\ DOMAIN outcome.nl = {}
       /\ IF call.op = "count_bonds"
          THEN /\ DOMAIN ret.val = AllBondKeys
               /\ 2 * Cardinality(DOMAIN ret.val) = TypeNum * (TypeNum + 1)
               /\ \A k \in DOMAIN ret.val : ret.val[k] = 0
          ELSE DOMAIN ret.val = {}

\* count_bonds has returned for a frame of two atom types and no atoms
C8_Witness ==
    /\ TotalAtoms = 0
    /\ TypeNum = 2
    /\ call.op = "count_bonds"
    /\ Resolvable
    /\ Ok

\* --------------------------------------------------------------------- C9

AllIsolated == \A i \in DOMAIN outcome.nl : outcome.nl[i] = <<>>

\* C9: bond-type key completeness.  Whenever count_bonds returns, the keys
\* of its map are the "Symbol-Symbol" keys of the unordered type pairs,
\* T(T+1)/2 of them, whatever the neighbour list; when every atom is
\* isolated every count is 0.
C9_BondKeyCompleteness ==
    (call.op = "count_bonds" /\ Ok)
    => /\ DOMAIN ret.val = AllBondKeys
       /\ 2 * Cardinality(DOMAIN ret.val) = TypeNum * (TypeNum + 1)
       /\ AllIsolated => \A k \in DOMAIN ret.val : ret.val[k] = 0

\* count_bonds has returned for isolated atoms of two types
C9_Witness ==
    /\ call.op = "count_bonds"
    /\ Ok
    /\ TypeNum = 2
    /\ Cardinality(Range(atoms_type)) = 2
    /\ AllIsolated

\* bonds are counted too: some count is positive
BondsCounted ==
    /\ call.op = "count_bonds"
    /\ Ok
    /\ \E k \in DOMAIN ret.val : ret.val[k] > 0

\* -------------------------------------------------------------------- C10

NonNegativeThresholds ==
    /\ outcome.bond_length.some
    /\ ~HasNegative(outcome.bond_length.val)

\* C10: implicit mesh invariant.  Whenever the neighbour engine is invoked
\* with non-negative thresholds, mesh_length is positive, 3 * mesh_length is
\* at most min(cell), every axis has at least 3 cells, and the three
\* stencil offsets of an atom's cell name three different cells on every
\* axis.
C10_MeshInvariant ==
    (outcome.engine /\ NonNegativeThresholds)
    => LET mesh3 == outcome.mesh3.val
           n == GridOf(cell, mesh3)
       IN  /\ mesh3 > 0
           /\ mesh3 <= MinCell(cell)
           /\ \A ax \in 1..3 : n[ax] >= 3
           /\ \A i \in DOMAIN atoms_pos : \A ax \in 1..3 :
                  LET ci == CellOf(atoms_pos[i], cell, n)[ax]
                  IN  Cardinality({(ci + o) % n[ax] : o \in {-1, 0, 1}}) = 3

\* the clamp has applied: mesh_length is min(cell) / 3
C10_Witness ==
    /\ call.op = "get_neighbor_list"
    /\ outcome.engine
    /\ NonNegativeThresholds
    /\ TotalAtoms >= 1
    /\ Clamped
    /\ outcome.mesh3.val = MinCell(cell)

\* without the clamp the mesh search is the brute-force search
UnclampedMeshMatchesBruteForce ==
    (outcome.engine /\ ~Clamped)
    => \A i \in DOMAIN outcome.nl : Range(outcome.nl[i]) = BruteForce(i)

====
